---- MODULE Spec2Model ----
(***************************************************************************)
(* A model of parser.py: the text functions count_words, count_chars,      *)
(* count_lines, find_word, replace_word and get_word_frequency, and the    *)
(* dispatcher process_file with main around it.                            *)
(*                                                                         *)
(* A text is a sequence of characters; a character is a one-element name.  *)
(* The characters of the model are                                         *)
(*   "s" "S"     a cased ASCII letter pair,                                *)
(*   "long_s"    U+017F LATIN SMALL LETTER LONG S: a word character that   *)
(*               str.lower leaves alone and that re.IGNORECASE treats as   *)
(*               the same letter as s and S,                               *)
(*   "n"         another ASCII letter (backslash n is a template escape),  *)
(*   "-"         a non-word character,                                     *)
(*   "\\"        the backslash, a non-word character,                      *)
(*   "\n"        the line feed, a non-word character.                      *)
(***************************************************************************)
EXTENDS Integers, Sequences, FiniteSets, TLC

VARIABLES
    pc,         \* where the run is
    file_path,  \* args.file
    input,      \* the input file: whether it can be read, and what it holds
    content,    \* the text read from the input file
    args,       \* the parsed command line
    results,    \* process_file's list of result lines
    replaced,   \* what replace_word returned to process_file
    writes,     \* the files opened for writing: path, data, and whether it worked
    stdout,     \* the lines printed
    ret,        \* the value a function called on its own returned
    ret2        \* the value a second call returned

vars == <<pc, file_path, input, content, args, results, replaced, writes, stdout,
          ret, ret2>>

(***************************************************************************)
(* Bounds of the model.                                                    *)
(***************************************************************************)
MaxFindText == 3
MaxFindWord == 2
MaxFreqText == 5
MaxTopN == 2
MaxReplText == 4
MaxOldWord == 2
MaxNewWord == 2
MaxContent == 2

SeqsUpTo(S, n) == UNION {[1..k -> S] : k \in 0..n}

Max(a, b) == IF a >= b THEN a ELSE b

Min(a, b) == IF a <= b THEN a ELSE b

(***************************************************************************)
(* Character classes and case mappings.                                    *)
(***************************************************************************)
Backslash == "\\"

LineFeed == "\n"

\* \w of a str pattern: alphanumerics and the underscore.
IsWordChar(c) == c \in {"s", "S", "long_s", "n"}

\* str.lower on one character: U+017F is its own lowercase.
LowerChar(c) == IF c = "S" THEN "s" ELSE c

\* str.lower on a text.
Lower(t) == [i \in 1..Len(t) |-> LowerChar(t[i])]

\* The letter a character stands for under re.IGNORECASE: the pattern
\* letters s, S and U+017F all match one another.
IgnoreCaseChar(c) == IF c \in {"S", "long_s"} THEN "s" ELSE c

IgnoreCase(t) == [i \in 1..Len(t) |-> IgnoreCaseChar(t[i])]

(***************************************************************************)
(* re.findall(r'\w+', t): the maximal runs of word characters, in order.   *)
(***************************************************************************)
RECURSIVE ScanWords(_, _, _, _)
ScanWords(t, i, cur, acc) ==
    IF i > Len(t)
    THEN IF cur = <<>> THEN acc ELSE Append(acc, cur)
    ELSE IF IsWordChar(t[i])
         THEN ScanWords(t, i + 1, Append(cur, t[i]), acc)
         ELSE ScanWords(t, i + 1, <<>>,
                        IF cur = <<>> THEN acc ELSE Append(acc, cur))

FindAllWords(t) == ScanWords(t, 1, <<>>, <<>>)

(***************************************************************************)
(* collections.Counter: the distinct elements in first-occurrence order,   *)
(* each with its number of occurrences; a missing key counts 0.            *)
(***************************************************************************)
RECURSIVE CounterAdd(_, _, _)
CounterAdd(c, w, i) ==
    IF i > Len(c) THEN Append(c, <<w, 1>>)
    ELSE IF c[i][1] = w THEN [c EXCEPT ![i] = <<w, c[i][2] + 1>>]
    ELSE CounterAdd(c, w, i + 1)

RECURSIVE CounterFrom(_, _, _)
CounterFrom(words, i, c) ==
    IF i > Len(words) THEN c
    ELSE CounterFrom(words, i + 1, CounterAdd(c, words[i], 1))

Counter(words) == CounterFrom(words, 1, <<>>)

RECURSIVE CounterGet(_, _, _)
CounterGet(c, w, i) ==
    IF i > Len(c) THEN 0
    ELSE IF c[i][1] = w THEN c[i][2]
    ELSE CounterGet(c, w, i + 1)

\* Counter.most_common(n) for an integer n: heapq.nlargest(n, items, key=count),
\* which is sorted(items, key=count, reverse=True)[:n]: stable, so equal counts
\* keep first-occurrence order, and empty for n <= 0.
RECURSIVE FirstLargest(_, _, _)
FirstLargest(c, i, best) ==
    IF i > Len(c) THEN best
    ELSE FirstLargest(c, i + 1, IF c[i][2] > c[best][2] THEN i ELSE best)

RemoveAt(c, k) == [i \in 1..(Len(c) - 1) |-> IF i < k THEN c[i] ELSE c[i + 1]]

\* A most_common that does not sort: the first n pairs in first-occurrence order.
MostCommon_Unsorted(c, n) == SubSeq(c, 1, Min(Max(n, 0), Len(c)))

RECURSIVE MostCommon(_, _)
MostCommon(c, n) ==
    IF n <= 0 \/ c = <<>> THEN <<>>
    ELSE LET k == FirstLargest(c, 1, 1)
         IN  <<c[k]>> \o MostCommon(RemoveAt(c, k), n - 1)

(***************************************************************************)
(* The counting functions.                                                 *)
(***************************************************************************)
count_words(text) == Len(FindAllWords(Lower(text)))

count_chars(text) == Len(text)

\* len(text.splitlines()): every line feed ends a line, and a last line
\* without one counts too (the line feed is the one line boundary among the
\* characters of the model).
count_lines(text) ==
    Cardinality({i \in 1..Len(text) : text[i] = LineFeed})
    + (IF text /= <<>> /\ text[Len(text)] /= LineFeed THEN 1 ELSE 0)

\* A find_word that looks the word up as given, not lowercased.
find_word_AsGiven(text, word) ==
    LET words == FindAllWords(Lower(text))
        word_counts == Counter(words)
    IN  [word |-> word, count |-> CounterGet(word_counts, word, 1)]

\* find_word returns {word: count}; the count is read back under the word.
find_word(text, word) ==
    LET words == FindAllWords(Lower(text))
        word_counts == Counter(words)
    IN  [word |-> word, count |-> CounterGet(word_counts, Lower(word), 1)]

get_word_frequency(text, top_n) ==
    LET words == FindAllWords(Lower(text))
    IN  MostCommon(Counter(words), top_n)

(***************************************************************************)
(* replace_word: the pattern \b + re.escape(old_word) + \b compiled with   *)
(* re.IGNORECASE, and re.subn with new_word as the replacement template.   *)
(***************************************************************************)
\* The characters re.escape puts a backslash before.
IsSpecialChar(c) == c \in {"-", Backslash, LineFeed}

RECURSIVE Escape(_, _)
Escape(w, i) ==
    IF i > Len(w) THEN <<>>
    ELSE (IF IsSpecialChar(w[i]) THEN <<Backslash, w[i]>> ELSE <<w[i]>>)
         \o Escape(w, i + 1)

PatternSource(old_word) == <<Backslash, "b">> \o Escape(old_word, 1) \o <<Backslash, "b">>

\* The parse of a pattern source: backslash b is the word-boundary assertion,
\* a backslash before any other character makes it a literal, and every
\* other character of the source is a literal.
RECURSIVE ParsePattern(_, _)
ParsePattern(src, i) ==
    IF i > Len(src) THEN <<>>
    ELSE IF src[i] = Backslash /\ i < Len(src)
         THEN (IF src[i + 1] = "b"
               THEN <<[kind |-> "boundary", c |-> ""]>>
               ELSE <<[kind |-> "literal", c |-> src[i + 1]]>>)
              \o ParsePattern(src, i + 2)
         ELSE <<[kind |-> "literal", c |-> src[i]]>> \o ParsePattern(src, i + 1)

\* A pattern without the two word-boundary assertions.
Compile_NoBoundary(old_word) == ParsePattern(Escape(old_word, 1), 1)

Compile(old_word) == ParsePattern(PatternSource(old_word), 1)

\* \b at offset p (0..Len): exactly one of the characters around p is a word
\* character; a text edge counts as a non-word character.
AtBoundary(text, p) ==
    LET before == p >= 1 /\ IsWordChar(text[p])
        after == p < Len(text) /\ IsWordChar(text[p + 1])
    IN  before /= after

\* A literal of a pattern compiled without re.IGNORECASE.
LiteralMatches_CaseSensitive(lit, c) == c = lit

\* A literal of a pattern compiled with re.IGNORECASE against a character.
LiteralMatches(lit, c) == IgnoreCaseChar(c) = IgnoreCaseChar(lit)

\* The end offset of the match of atoms k.. starting at offset p, or -1.
RECURSIVE MatchEnd(_, _, _, _)
MatchEnd(atoms, k, text, p) ==
    IF k > Len(atoms) THEN p
    ELSE IF atoms[k].kind = "boundary"
         THEN IF AtBoundary(text, p) THEN MatchEnd(atoms, k + 1, text, p) ELSE -1
         ELSE IF p < Len(text) /\ LiteralMatches(atoms[k].c, text[p + 1])
              THEN MatchEnd(atoms, k + 1, text, p + 1)
              ELSE -1

\* The parse of a replacement template: backslash n and backslash backslash
\* are escapes, a backslash before any other ASCII letter or at the end is an
\* error (ok = FALSE), a backslash before anything else stays as it is.
RECURSIVE ParseTemplate(_, _, _)
ParseTemplate(repl, i, acc) ==
    IF i > Len(repl) THEN [ok |-> TRUE, text |-> acc]
    ELSE IF repl[i] /= Backslash THEN ParseTemplate(repl, i + 1, Append(acc, repl[i]))
    ELSE IF i = Len(repl) THEN [ok |-> FALSE, text |-> <<>>]
    ELSE LET d == repl[i + 1]
         IN  IF d = "n" THEN ParseTemplate(repl, i + 2, Append(acc, LineFeed))
             ELSE IF d = Backslash THEN ParseTemplate(repl, i + 2, Append(acc, Backslash))
             ELSE IF d \in {"s", "S"} THEN [ok |-> FALSE, text |-> <<>>]
             ELSE ParseTemplate(repl, i + 2, acc \o <<Backslash, d>>)

\* The scan of re.subn from offset p: the leftmost match is replaced by ins
\* and the scan goes on behind it; an empty match also copies the next
\* character. The result is the new text and the number of matches.
RECURSIVE SubnScan(_, _, _, _, _, _)
SubnScan(atoms, ins, text, p, acc, count) ==
    IF p > Len(text) THEN [text |-> acc, count |-> count]
    ELSE LET e == MatchEnd(atoms, 1, text, p)
         IN  IF e = -1
             THEN IF p = Len(text) THEN [text |-> acc, count |-> count]
                  ELSE SubnScan(atoms, ins, text, p + 1, Append(acc, text[p + 1]), count)
             ELSE IF e > p
                  THEN SubnScan(atoms, ins, text, e, acc \o ins, count + 1)
                  ELSE IF p = Len(text)
                       THEN [text |-> acc \o ins, count |-> count + 1]
                       ELSE SubnScan(atoms, ins, text, p + 1,
                                     (acc \o ins) \o <<text[p + 1]>>, count + 1)

\* replace_word returns (updated_text, count), or raises re.error (ok = FALSE)
\* when new_word is not a well-formed template.
replace_word(text, old_word, new_word) ==
    LET pattern == Compile(old_word)
        template == ParseTemplate(new_word, 1, <<>>)
    IN  IF ~template.ok THEN [ok |-> FALSE, text |-> <<>>, count |-> 0]
        ELSE LET r == SubnScan(pattern, template.text, text, 0, <<>>, 0)
             IN  [ok |-> TRUE, text |-> r.text, count |-> r.count]

(***************************************************************************)
(* The values a variable holds before it is set.                           *)
(***************************************************************************)
NoArgs ==
    [word_count |-> FALSE, char_count |-> FALSE, line_count |-> FALSE,
     find |-> [given |-> FALSE, v |-> <<>>],
     replace |-> [given |-> FALSE, old |-> <<>>, new |-> <<>>],
     word_frequency |-> [given |-> FALSE, v |-> 0]]

NoResult == [ok |-> FALSE, text |-> <<>>, count |-> -1]

NoFind == [word |-> <<>>, count |-> -1]

Idle ==
    /\ file_path = <<>>
    /\ input = [status |-> "ok", data |-> <<>>]
    /\ results = <<>>
    /\ replaced = NoResult
    /\ writes = <<>>
    /\ stdout = <<>>

IdleUnchanged == UNCHANGED <<file_path, input, results, replaced, writes, stdout>>

(***************************************************************************)
(* find_word applied to every text and word within the bounds.             *)
(***************************************************************************)
FindAlphabet == {"s", "S", "long_s", "-"}

InitFind ==
    /\ Idle
    /\ pc = "call"
    /\ content \in SeqsUpTo(FindAlphabet, MaxFindText)
    /\ \E w \in SeqsUpTo(FindAlphabet, MaxFindWord) :
          args = [NoArgs EXCEPT !.find = [given |-> TRUE, v |-> w]]
    /\ ret = NoFind
    /\ ret2 = NoFind

CallFind ==
    /\ pc = "call"
    /\ ret' = find_word(content, args.find.v)
    /\ pc' = "returned"
    /\ UNCHANGED <<content, args, ret2>>
    /\ IdleUnchanged

\* The same text asked for the word in another letter case.
CallFindOtherCase ==
    /\ pc = "returned"
    /\ \E w \in SeqsUpTo(FindAlphabet, MaxFindWord) :
          /\ Lower(w) = Lower(args.find.v)
          /\ ret2' = find_word(content, w)
    /\ pc' = "compared"
    /\ UNCHANGED <<content, args, ret>>
    /\ IdleUnchanged

\* The word asked of a text that differs in letter case only.
CallFindOtherText ==
    /\ pc = "returned"
    /\ \E t \in SeqsUpTo(FindAlphabet, MaxFindText) :
          /\ Lower(t) = Lower(content)
          /\ ret2' = [find_word(t, args.find.v) EXCEPT !.word = args.find.v]
    /\ pc' = "compared"
    /\ UNCHANGED <<content, args, ret>>
    /\ IdleUnchanged

NextFind == CallFind \/ CallFindOtherCase \/ CallFindOtherText

SpecFind == InitFind /\ [][NextFind]_vars

(***************************************************************************)
(* What the claims speak of, stated without the functions above: the       *)
(* tokens of a text are its maximal runs of word characters.               *)
(***************************************************************************)
IsRun(t, i, j) ==
    /\ 1 <= i /\ i <= j /\ j <= Len(t)
    /\ \A k \in i..j : IsWordChar(t[k])
    /\ (i = 1 \/ ~IsWordChar(t[i - 1]))
    /\ (j = Len(t) \/ ~IsWordChar(t[j + 1]))

Runs(t) == {r \in (1..Len(t)) \X (1..Len(t)) : IsRun(t, r[1], r[2])}

\* The number of tokens of the lowercased text that equal w.
TokenCount(t, w) ==
    Cardinality({r \in Runs(t) : SubSeq(Lower(t), r[1], r[2]) = w})

DistinctTokens(t) == {SubSeq(Lower(t), r[1], r[2]) : r \in Runs(t)}

WordOnly(w) == w /= <<>> /\ \A i \in 1..Len(w) : IsWordChar(w[i])

FreqAlphabet == {"s", "S", "n", "-"}

InitFreq ==
    /\ Idle
    /\ pc = "call"
    /\ content \in SeqsUpTo(FreqAlphabet, MaxFreqText)
    /\ \E n \in (-1)..MaxTopN :
          args = [NoArgs EXCEPT !.word_frequency = [given |-> TRUE, v |-> n]]
    /\ ret = <<>>
    /\ ret2 = <<>>

CallFreq ==
    /\ pc = "call"
    /\ ret' = get_word_frequency(content, args.word_frequency.v)
    /\ pc' = "returned"
    /\ UNCHANGED <<content, args, ret2>>
    /\ IdleUnchanged

NextFreq == CallFreq

SpecFreq == InitFreq /\ [][NextFreq]_vars

\* C8: get_word_frequency(T, n) is a list of min(max(n, 0), distinct tokens)
\* pairs with pairwise distinct tokens, each with its number of occurrences,
\* counts non-increasing, and no token left out has a greater count than a
\* token in the list; it is empty when n <= 0 or T has no word character.
FrequencyIsTopN ==
    pc = "returned" =>
        LET n == args.word_frequency.v
            listed == {ret[i][1] : i \in 1..Len(ret)}
        IN  /\ Len(ret) = Min(Max(n, 0), Cardinality(DistinctTokens(content)))
            /\ \A i, j \in 1..Len(ret) : i /= j => ret[i][1] /= ret[j][1]
            /\ \A i \in 1..Len(ret) :
                  /\ ret[i][2] = TokenCount(content, ret[i][1])
                  /\ ret[i][2] >= 1
            /\ \A i \in 1..(Len(ret) - 1) : ret[i][2] >= ret[i + 1][2]
            /\ \A w \in DistinctTokens(content) \ listed :
                  \A i \in 1..Len(ret) : TokenCount(content, w) <= ret[i][2]
            /\ (n <= 0 \/ DistinctTokens(content) = {} => ret = <<>>)

\* C8 witness: a list cut to one pair whose token is not the first of the text.
FrequencyWitness ==
    /\ pc = "returned"
    /\ Len(ret) = 1
    /\ ret[1][2] = 2
    /\ Cardinality(DistinctTokens(content)) = 2
    /\ FindAllWords(Lower(content))[1] /= ret[1][1]

(***************************************************************************)
(* replace_word applied to every text, old word and new word within the    *)
(* bounds; then applied again to its own result, or followed by find_word  *)
(* on the same text and word.                                              *)
(***************************************************************************)
ReplTextAlphabet == {"s", "S", "long_s", "-"}

OldAlphabet == {"s", "S", "-"}

NewAlphabet == {"S", "n", Backslash}

WordPairs ==
    LET olds == SeqsUpTo(OldAlphabet, MaxOldWord)
    IN  (olds \X SeqsUpTo(NewAlphabet, MaxNewWord)) \cup {<<o, o>> : o \in olds}

InitReplace ==
    /\ Idle
    /\ pc = "call"
    /\ content \in SeqsUpTo(ReplTextAlphabet, MaxReplText)
    /\ \E w \in WordPairs :
          args = [NoArgs EXCEPT !.replace = [given |-> TRUE, old |-> w[1], new |-> w[2]]]
    /\ ret = NoResult
    /\ ret2 = NoResult

CallReplace ==
    /\ pc = "call"
    /\ ret' = replace_word(content, args.replace.old, args.replace.new)
    /\ pc' = "replaced"
    /\ UNCHANGED <<content, args, ret2>>
    /\ IdleUnchanged

CallReplaceAgain ==
    /\ pc = "replaced"
    /\ ret.ok
    /\ ret2' = replace_word(ret.text, args.replace.old, args.replace.new)
    /\ pc' = "again"
    /\ UNCHANGED <<content, args, ret>>
    /\ IdleUnchanged

CallFindSame ==
    /\ pc = "replaced"
    /\ ret2' = find_word(content, args.replace.old)
    /\ pc' = "found"
    /\ UNCHANGED <<content, args, ret>>
    /\ IdleUnchanged

NextReplace == CallReplace \/ CallReplaceAgain \/ CallFindSame

SpecReplace == InitReplace /\ [][NextReplace]_vars

\* An occurrence of w at offset p of t, in any letter case, bounded on both
\* sides by a non-word character or a text edge.
WholeWordAt(t, w, p) ==
    /\ p + Len(w) <= Len(t)
    /\ IgnoreCase(SubSeq(t, p + 1, p + Len(w))) = IgnoreCase(w)
    /\ (p = 0 \/ ~IsWordChar(t[p]))
    /\ (p + Len(w) = Len(t) \/ ~IsWordChar(t[p + Len(w) + 1]))

\* t with its whole-word occurrences of w, left to right, replaced by ins.
RECURSIVE ReplaceWholeWords(_, _, _, _)
ReplaceWholeWords(t, w, ins, p) ==
    IF p >= Len(t) THEN [text |-> <<>>, count |-> 0]
    ELSE IF WholeWordAt(t, w, p)
         THEN LET r == ReplaceWholeWords(t, w, ins, p + Len(w))
              IN  [text |-> ins \o r.text, count |-> r.count + 1]
         ELSE LET r == ReplaceWholeWords(t, w, ins, p + 1)
              IN  [text |-> <<t[p + 1]>> \o r.text, count |-> r.count]

\* The text put in for a match, for a new word replace_word accepts.
Inserted(new_word) == ParseTemplate(new_word, 1, <<>>).text

\* C1 (as claimed): for every text and every non-empty old word, replace_word
\* substitutes exactly the whole-word occurrences (bounded on both sides by a
\* non-word character or a text edge), the count is their number, and a count
\* of 0 leaves the text as it is.
ReplaceExactlyWholeWords ==
    (pc /= "call" /\ ret.ok /\ args.replace.old /= <<>>) =>
        LET r == ReplaceWholeWords(content, args.replace.old,
                                   Inserted(args.replace.new), 0)
        IN  /\ ret.text = r.text
            /\ ret.count = r.count
            /\ (ret.count = 0 => ret.text = content)

\* C2 (as claimed): each match is replaced by the new word exactly as given,
\* character for character, whatever characters it contains.
ReplacementIsVerbatim ==
    (pc /= "call" /\ ret.ok /\ ret.count > 0) =>
        ret.text = SubnScan(Compile(args.replace.old), args.replace.new,
                            content, 0, <<>>, 0).text

\* C3 (as claimed): for distinct words x and y, replacing x by y in the
\* result of replacing x by y returns that result with count 0.
ReplaceTwiceSameWhenDistinct ==
    (/\ pc = "again"
     /\ args.replace.old /= args.replace.new
     /\ WordOnly(args.replace.old)
     /\ WordOnly(args.replace.new)) =>
        (ret2.ok /\ ret2.text = ret.text /\ ret2.count = 0)

\* No token of the text put in for a match is x in any letter case.
NoTokenOf(x, ins) ==
    \A r \in Runs(ins) : IgnoreCase(SubSeq(ins, r[1], r[2])) /= IgnoreCase(x)

\* C3 (amended): for a non-empty x of word characters only and a y whose
\* inserted text holds no token equal to x in any letter case, replacing x by
\* y in the result of replacing x by y returns that result with count 0.
ReplaceTwiceSameWhenNoNewToken ==
    (/\ pc = "again"
     /\ WordOnly(args.replace.old)
     /\ NoTokenOf(args.replace.old, Inserted(args.replace.new))) =>
        (ret2.ok /\ ret2.text = ret.text /\ ret2.count = 0)

\* C3 witness: a second pass over a text the first pass changed.
ReplaceTwiceWitness ==
    /\ pc = "again"
    /\ WordOnly(args.replace.old)
    /\ NoTokenOf(args.replace.old, Inserted(args.replace.new))
    /\ ret.count = 2
    /\ Inserted(args.replace.new) /= <<>>
    /\ ret.text /= content

\* The number of tokens of t that are w in any letter case.
TokenCountIgnoreCase(t, w) ==
    Cardinality({r \in Runs(t) : IgnoreCase(SubSeq(t, r[1], r[2])) = IgnoreCase(w)})

\* t with every token that is w in some letter case spelled as w.
Respelled(t, w) ==
    [i \in 1..Len(t) |->
        IF \E r \in Runs(t) : /\ r[1] <= i /\ i <= r[2]
                              /\ IgnoreCase(SubSeq(t, r[1], r[2])) = IgnoreCase(w)
        THEN LET r == CHOOSE r \in Runs(t) : r[1] <= i /\ i <= r[2]
             IN  w[i - r[1] + 1]
        ELSE t[i]]

\* C4 (as claimed): replace_word(T, W, W) returns T itself and the number of
\* occurrences of W, here for a non-empty W of word characters only.
ReplaceBySelfReturnsText ==
    (/\ pc /= "call"
     /\ args.replace.new = args.replace.old
     /\ WordOnly(args.replace.old)) =>
        /\ ret.ok
        /\ ret.text = content
        /\ ret.count = TokenCountIgnoreCase(content, args.replace.old)

\* C4 (amended): for a non-empty W of word characters only,
\* replace_word(T, W, W) returns T with every whole-word occurrence of W, in
\* whatever letter case, spelled as W (so T up to letter case, and T itself
\* when every occurrence is already spelled as W) and the number of these
\* occurrences.
ReplaceBySelfRespells ==
    (/\ pc /= "call"
     /\ args.replace.new = args.replace.old
     /\ WordOnly(args.replace.old)) =>
        /\ ret.ok
        /\ ret.text = Respelled(content, args.replace.old)
        /\ Len(ret.text) = Len(content)
        /\ IgnoreCase(ret.text) = IgnoreCase(content)
        /\ ret.count = TokenCountIgnoreCase(content, args.replace.old)
        /\ ((\A r \in Runs(content) :
                IgnoreCase(SubSeq(content, r[1], r[2])) = IgnoreCase(args.replace.old)
                    => SubSeq(content, r[1], r[2]) = args.replace.old)
            => ret.text = content)

\* C4 witness: a word replaced by itself in a text that spells it otherwise.
ReplaceBySelfWitness ==
    /\ pc = "replaced"
    /\ args.replace.new = args.replace.old
    /\ WordOnly(args.replace.old)
    /\ ret.count = 2
    /\ ret.text /= content

\* C10 (as claimed): for a non-empty word of word characters only, the count
\* of replace_word equals the count of find_word on the same text.
ReplaceCountIsFindCount ==
    (pc = "found" /\ ret.ok /\ WordOnly(args.replace.old)) =>
        ret.count = ret2.count

(***************************************************************************)
(* main and process_file: one run of the program on a command line.        *)
(* An option that was not given is None (given = FALSE); process_file      *)
(* tests each option for truth, and "" and 0 are false as None is.         *)
(***************************************************************************)
Line(kind, word, new, n, path) ==
    [kind |-> kind, word |-> word, new |-> new, n |-> n, path |-> path]

IsTrueWord(opt) == opt.given /\ opt.v /= <<>>

IsTrueInt(opt) == opt.given /\ opt.v /= 0

\* A new file path that is the input file's own.
NewFilePath_Same(path) == path

\* f"updated_{file_path}"
NewFilePath(path) == <<"updated_">> \o path

WordCountLines(text, a) ==
    IF a.word_count THEN <<Line("word_count", <<>>, <<>>, count_words(text), <<>>)>>
    ELSE <<>>

CharCountLines(text, a) ==
    IF a.char_count THEN <<Line("char_count", <<>>, <<>>, count_chars(text), <<>>)>>
    ELSE <<>>

LineCountLines(text, a) ==
    IF a.line_count THEN <<Line("line_count", <<>>, <<>>, count_lines(text), <<>>)>>
    ELSE <<>>

FindLines(text, a) ==
    IF IsTrueWord(a.find)
    THEN LET frequency == find_word(text, a.find.v)
         IN  <<Line("find", a.find.v, <<>>, frequency.count, <<>>)>>
    ELSE <<>>

FrequencyLines(text, a) ==
    IF IsTrueInt(a.word_frequency)
    THEN LET top_words == get_word_frequency(text, a.word_frequency.v)
         IN  <<Line("top_words", <<>>, <<>>, 0, <<>>)>>
             \o [i \in 1..Len(top_words) |->
                    Line("top_word", top_words[i][1], <<>>, top_words[i][2], <<>>)]
    ELSE <<>>

ContentAlphabet == {"s", "S", "-", LineFeed}

Paths == {<<"f">>, <<"d/", "f">>}

FindOptions ==
    {[given |-> FALSE, v |-> <<>>]}
    \cup {[given |-> TRUE, v |-> w] : w \in {<<>>, <<"s">>, <<"-">>}}

ReplaceOptions ==
    {[given |-> FALSE, old |-> <<>>, new |-> <<>>]}
    \cup {[given |-> TRUE, old |-> w[1], new |-> w[2]] :
            w \in {<<<<"s">>, <<"n">>>>, <<<<"s">>, <<Backslash>>>>,
                   <<<<"-">>, <<"n">>>>, <<<<>>, <<"S">>>>}}

FrequencyOptions ==
    {[given |-> FALSE, v |-> 0]}
    \cup {[given |-> TRUE, v |-> n] : n \in (-1)..MaxTopN}

Inputs ==
    {[status |-> "ok", data |-> t] : t \in SeqsUpTo(ContentAlphabet, MaxContent)}
    \cup {[status |-> st, data |-> <<>>] : st \in {"missing", "unreadable"}}

Init ==
    /\ pc = "open"
    /\ file_path \in Paths
    /\ input \in Inputs
    /\ content = <<>>
    /\ args \in [word_count : BOOLEAN, char_count : BOOLEAN, line_count : BOOLEAN,
                 find : FindOptions, replace : ReplaceOptions,
                 word_frequency : FrequencyOptions]
    /\ results = <<>>
    /\ replaced = NoResult
    /\ writes = <<>>
    /\ stdout = <<>>
    /\ ret = NoResult
    /\ ret2 = NoResult

\* Lines 93-101: the file is read, or the error is printed and the run exits.
OpenFile ==
    /\ pc = "open"
    /\ IF input.status = "ok"
       THEN /\ content' = input.data
            /\ pc' = "word_count"
            /\ UNCHANGED stdout
       ELSE /\ stdout' = Append(stdout, Line(input.status, <<>>, <<>>, 0, file_path))
            /\ pc' = "exit1"
            /\ UNCHANGED content
    /\ UNCHANGED <<file_path, input, args, results, replaced, writes, ret, ret2>>

WordCount ==
    /\ pc = "word_count"
    /\ results' = results \o WordCountLines(content, args)
    /\ pc' = "char_count"
    /\ UNCHANGED <<file_path, input, content, args, replaced, writes, stdout, ret, ret2>>

CharCount ==
    /\ pc = "char_count"
    /\ results' = results \o CharCountLines(content, args)
    /\ pc' = "line_count"
    /\ UNCHANGED <<file_path, input, content, args, replaced, writes, stdout, ret, ret2>>

LineCount ==
    /\ pc = "line_count"
    /\ results' = results \o LineCountLines(content, args)
    /\ pc' = "find"
    /\ UNCHANGED <<file_path, input, content, args, replaced, writes, stdout, ret, ret2>>

Find ==
    /\ pc = "find"
    /\ results' = results \o FindLines(content, args)
    /\ pc' = "replace"
    /\ UNCHANGED <<file_path, input, content, args, replaced, writes, stdout, ret, ret2>>

\* A write whose IOError is not caught: the run ends there.
WriteOutcome_Uncaught(written, opt, count, path) ==
    IF written
    THEN [pc |-> "word_frequency",
          lines |-> <<Line("replaced", opt.old, opt.new, count, path)>>]
    ELSE [pc |-> "raised", lines |-> <<>>]

\* Lines 123-128: the line reported for the write of the new file, which
\* worked or raised IOError, and where the run goes on.
WriteOutcome(written, opt, count, path) ==
    [pc |-> "word_frequency",
     lines |-> <<Line(IF written THEN "replaced" ELSE "write_error",
                      opt.old, opt.new, count, path)>>]

\* Lines 118-130. replace_word may raise re.error, which nothing catches: the
\* run ends there. The write of the new file works or raises IOError.
Replace ==
    /\ pc = "replace"
    /\ IF ~args.replace.given
       THEN /\ pc' = "word_frequency"
            /\ UNCHANGED <<results, replaced, writes>>
       ELSE LET r == replace_word(content, args.replace.old, args.replace.new)
                new_file_path == NewFilePath(file_path)
            IN  IF ~r.ok
                THEN /\ pc' = "raised"
                     /\ UNCHANGED <<results, replaced, writes>>
                ELSE /\ replaced' = r
                     /\ IF r.count > 0
                        THEN \E written \in BOOLEAN :
                               LET o == WriteOutcome(written, args.replace, r.count,
                                                     new_file_path)
                               IN  /\ writes' = Append(writes, [path |-> new_file_path,
                                                                data |-> r.text,
                                                                ok |-> written])
                                   /\ results' = results \o o.lines
                                   /\ pc' = o.pc
                        ELSE /\ results' = Append(results,
                                     Line("not_found", args.replace.old, <<>>, 0, <<>>))
                             /\ pc' = "word_frequency"
                             /\ UNCHANGED writes
    /\ UNCHANGED <<file_path, input, content, args, stdout, ret, ret2>>

WordFrequency ==
    /\ pc = "word_frequency"
    /\ results' = results \o FrequencyLines(content, args)
    /\ pc' = "return"
    /\ UNCHANGED <<file_path, input, content, args, replaced, writes, stdout, ret, ret2>>

\* Lines 155-157: main prints the results.
ShowResults ==
    /\ pc = "return"
    /\ stdout' = stdout \o results
    /\ pc' = "done"
    /\ UNCHANGED <<file_path, input, content, args, results, replaced, writes, ret, ret2>>

Next ==
    \/ OpenFile
    \/ WordCount
    \/ CharCount
    \/ LineCount
    \/ Find
    \/ Replace
    \/ WordFrequency
    \/ ShowResults

Spec == Init /\ [][Next]_vars

(***************************************************************************)
(* The run of process_file.                                                *)
(***************************************************************************)
Returned == pc \in {"return", "done"}

PastReplace == pc \in {"word_frequency", "return", "done"}

WriteFailed == writes /= <<>> /\ ~writes[1].ok

\* The line the replace of this run ended with, if replace was requested.
ReplaceOutcomeLines ==
    IF ~args.replace.given THEN <<>>
    ELSE IF replaced.count > 0
         THEN <<Line(IF writes[1].ok THEN "replaced" ELSE "write_error",
                     args.replace.old, args.replace.new, replaced.count,
                     writes[1].path)>>
         ELSE <<Line("not_found", args.replace.old, <<>>, 0, <<>>)>>

\* The lines of a requested find and of a requested top-N: an option that is
\* given is requested, whatever its value.
RequestedFindLines ==
    IF args.find.given
    THEN <<Line("find", args.find.v, <<>>,
                TokenCount(content, Lower(args.find.v)), <<>>)>>
    ELSE <<>>

RequestedFrequencyLines ==
    IF args.word_frequency.given
    THEN LET top_words == get_word_frequency(content, args.word_frequency.v)
         IN  <<Line("top_words", <<>>, <<>>, 0, <<>>)>>
             \o [i \in 1..Len(top_words) |->
                    Line("top_word", top_words[i][1], <<>>, top_words[i][2], <<>>)]
    ELSE <<>>

\* C5 (as claimed): the result list is the concatenation, in the fixed
\* order, of the lines of exactly the requested operations, each requested
\* operation contributing at least one line (top-N a header and one line per
\* ranked pair), for any argument values the command line accepts.
ResultsAreRequestedLines ==
    Returned =>
        results = WordCountLines(content, args) \o CharCountLines(content, args)
                  \o LineCountLines(content, args) \o RequestedFindLines
                  \o ReplaceOutcomeLines \o RequestedFrequencyLines

WriteFailureIsOneLine ==
    /\ WriteFailed => PastReplace
    /\ (Returned /\ args.replace.given /\ replaced.count > 0) =>
          LET before == WordCountLines(content, args) \o CharCountLines(content, args)
                        \o LineCountLines(content, args) \o FindLines(content, args)
              after == FrequencyLines(content, args)
              line == Line(IF writes[1].ok THEN "replaced" ELSE "write_error",
                           args.replace.old, args.replace.new, replaced.count,
                           NewFilePath(file_path))
          IN  /\ results = (before \o <<line>>) \o after
              /\ Cardinality({i \in 1..Len(results) :
                                results[i].kind \in {"replaced", "write_error"}}) = 1
    /\ (pc = "done" /\ WriteFailed) => stdout = results

\* C7 witness: a finished run whose write failed, with lines before and
\* after the failure's.
WriteFailureWitness ==
    /\ pc = "done"
    /\ WriteFailed
    /\ args.replace.old /= <<>>
    /\ Len(results) >= 4
    /\ results[1].kind = "word_count"
    /\ results[Len(results)].kind = "top_word"

====
